---- MODULE Spec2Model ----
(***************************************************************************)
(* WeatherStar 4000 (weatherstar4000.py): the NOAA data cache              *)
(* (NOAAWeatherAPI) and the display scheduler of WeatherStar4000Complete   *)
(* (run, cycle_display, show_context_menu, update_display_list); and of    *)
(* weatherstar_modules the 30-day history (history_graphs.py,              *)
(* display_history.py) and the surface cache (performance.py).             *)
(*                                                                         *)
(* Time: `now` is time.time() in whole seconds; display_timer and dt are   *)
(* the milliseconds of pygame's clock.tick.  current_display_index is      *)
(* 0-based as in the source; sequences are 1-based, so the screen shown    *)
(* is displays[current_display_index + 1].                                 *)
(***************************************************************************)
EXTENDS Integers, Sequences, FiniteSets, TLC

VARIABLES
    now,            \* time.time(), seconds
    cache,          \* NOAAWeatherAPI.cache: key -> payload
    cache_time,     \* NOAAWeatherAPI.cache_time: key -> time of storing
    calls,          \* number of accessor calls made so far (bounded)
    stored_at,      \* history: key -> time of the last _cache_data(key, ..)
    stored_with,    \* history: key -> units asked for and body of that store
    api_call,       \* history: the accessor call made by the last step
    settings,       \* self.settings: the flags that shape the screen catalog
    displays,       \* self.displays: the screen catalog
    current_display_index,
    display_timer,  \* ms
    is_playing,
    transition_active,
    transition_alpha,
    transition_surface, \* "None", or the frame captured by screen.copy()
    screen,         \* the frame on self.screen: the mode drawn last
    station,        \* self.station, "None" until resolved
    office,         \* self.office (with gridX, gridY), "None" until known
    weather_data,   \* self.weather_data: current, forecast, hourly
    last_update,    \* run()'s last_update, seconds
    pc,             \* "start": constructed, run() not yet in its loop,
                    \* "loop": between two iterations of run()'s while loop,
                    \* "menu": inside show_context_menu, "stopped": run() is over,
                    \* "fetch": inside update_weather_data, waiting in
                    \* requests.get for the network's answer
    tick,           \* history: the inputs and branches of the last iteration
    history_data,   \* WeatherHistoryGraph.history_data
    history_cache_time, \* WeatherHistoryGraph.cache_time
    history_call,   \* history: the last call into the history module
    max_size,       \* SurfaceCache.max_size, 0 before the cache is constructed
    surfaces,       \* SurfaceCache.cache: key -> surface
    access_times,   \* SurfaceCache.access_times, in the dict's insertion order
    surface_call,   \* history: the last SurfaceCache call and the keys put
    frame_times,    \* PerformanceMonitor.frame_times, ms
    frame_count,    \* PerformanceMonitor.frame_count
    frame_skip,     \* PerformanceOptimizer.frame_skip
    perf_call,      \* history: the last calls into the optimizer
    enabled,        \* VoiceNarrator.enabled
    is_speaking,    \* VoiceNarrator.is_speaking
    last_announcement_time, \* VoiceNarrator.last_announcement_time
    workers,        \* where each speak_worker thread is
    music_ducked,   \* the music volume is lowered (duck / restore callbacks)
    animator,       \* SevereWeatherDisplay.animator
    current_alerts, \* SevereWeatherDisplay.current_alerts
    alert_call      \* history: the last call into the alert screen

apiVars == <<now, cache, cache_time, calls, stored_at, stored_with, api_call>>
dataVars == <<station, office, weather_data, last_update>>
schedVars == <<settings, displays, current_display_index, display_timer, is_playing,
               transition_active, transition_alpha, transition_surface, screen, pc,
               tick>>
historyVars == <<history_data, history_cache_time, history_call>>
surfaceVars == <<max_size, surfaces, access_times, surface_call>>
perfVars == <<frame_times, frame_count, frame_skip, perf_call>>
voiceVars == <<enabled, is_speaking, last_announcement_time, workers, music_ducked>>
alertVars == <<animator, current_alerts, alert_call>>
moduleVars == <<history_data, history_cache_time, history_call,
                max_size, surfaces, access_times, surface_call,
                perfVars, voiceVars, alertVars>>
vars == <<now, cache, cache_time, calls, stored_at, stored_with, api_call, station, office,
          weather_data, last_update, settings, displays, current_display_index,
          display_timer, is_playing, transition_active, transition_alpha,
          transition_surface, screen, pc, tick, history_data, history_cache_time,
          history_call, max_size, surfaces, access_times, surface_call,
          perfVars, voiceVars, alertVars>>

(***************************************************************************)
(* Bounds of the model.                                                    *)
(***************************************************************************)
MaxCalls == 2
\* time.time() stops here where the main loop fetches weather data.
MaxClock == 2200
\* time.time() stops here where the answers vary in shape too.
MaxDataClock == 700
\* display_timer grows without limit while paused: ticks stop being fed here.
MaxTimer == 60000

(***************************************************************************)
(* Payloads and HTTP responses.  A payload is a decoded JSON body: `id`    *)
(* tells two fetched bodies apart, `shape` is "object" for a JSON object   *)
(* of the documented layout and "array" for a body that decodes to a JSON  *)
(* array (decodable, but without the dict interface the accessors use).    *)
(***************************************************************************)
None == [id |-> 0, shape |-> "none"]
Undecodable == [id |-> 0, shape |-> "undecodable"]
Payloads == [id : {1, 2}, shape : {"object"}] \cup {[id |-> 1, shape |-> "array"]}

\* requests.get: raises (connection error, timeout), or answers with a status
\* and a body.
Raised == [raised |-> TRUE, status |-> 0, body |-> None]
Responses ==
    {Raised}
    \cup {[raised |-> FALSE, status |-> 500, body |-> Undecodable]}
    \cup [raised : {FALSE}, status : {200}, body : Payloads \cup {Undecodable}]

\* The values time.time() takes in the model.
ClockPoints == {0, 299, 300, 301, 1800, 3600}

Kinds == {"point", "stations", "obs", "forecast", "hourly"}

\* The session's location (Location is immutable for the session).
LatLon == "28.5383_-81.3792"
StationsUrl == "https://api.weather.gov/gridpoints/MLB/26,68/stations"
StationId == "KORL"
Grid == "MLB_26_68"

TTL_POINT == 3600
TTL_STATIONS == 3600
TTL_OBS == 300
TTL_FORECAST == 1800
TTL_HOURLY == 1800

(***************************************************************************)
(* NOAAWeatherAPI.  `api` is the pair of dictionaries [cache, cache_time], *)
(* `t` the value of time.time() during the call.                           *)
(***************************************************************************)
\* Mutant: the boundary age = max_age counted as valid.
_is_cache_valid_Inclusive(api, t, key, max_age) ==
    key \in DOMAIN api.cache_time /\ t - api.cache_time[key] <= max_age

_is_cache_valid(api, t, key, max_age) ==
    IF key \notin DOMAIN api.cache_time
    THEN FALSE
    ELSE LET age == t - api.cache_time[key]
         IN  age < max_age

Put(f, key, v) == [k \in DOMAIN f \cup {key} |-> IF k = key THEN v ELSE f[k]]

_cache_data(api, t, key, data) ==
    [cache |-> Put(api.cache, key, data),
     cache_time |-> Put(api.cache_time, key, t)]

\* dict-only access made on the decoded body after it was cached:
\* data.get(..) raises AttributeError on a JSON array.
DictAccessRaises(data) == data.shape # "object"

\* Mutant: a failed fetch falls back to the entry already cached.
Accessor_ServeStale(api, t, key, max_age, resp, logs_body) ==
    IF _is_cache_valid(api, t, key, max_age)
    THEN [api |-> api, ret |-> api.cache[key], net |-> FALSE, stored |-> FALSE]
    ELSE IF resp.raised \/ resp.status # 200 \/ resp.body = Undecodable
    THEN [api |-> api,
          ret |-> IF key \in DOMAIN api.cache THEN api.cache[key] ELSE None,
          net |-> TRUE, stored |-> FALSE]
    ELSE LET api2 == _cache_data(api, t, key, resp.body)
         IN  IF logs_body /\ DictAccessRaises(resp.body)
             THEN [api |-> api2, ret |-> None, net |-> TRUE, stored |-> TRUE]
             ELSE [api |-> api2, ret |-> resp.body, net |-> TRUE, stored |-> TRUE]

\* The body shared by the five accessors: cache check, requests.get,
\* status check, resp.json(), _cache_data, the logging that follows, and the
\* except clause that turns every exception into `return None`.
\* `logs_body` says whether the logging after _cache_data reads the body.
Accessor(api, t, key, max_age, resp, logs_body) ==
    IF _is_cache_valid(api, t, key, max_age)
    THEN [api |-> api, ret |-> api.cache[key], net |-> FALSE, stored |-> FALSE]
    ELSE IF resp.raised
    THEN [api |-> api, ret |-> None, net |-> TRUE, stored |-> FALSE]
    ELSE IF resp.status # 200
    THEN [api |-> api, ret |-> None, net |-> TRUE, stored |-> FALSE]
    ELSE IF resp.body = Undecodable
    THEN [api |-> api, ret |-> None, net |-> TRUE, stored |-> FALSE]
    ELSE LET api2 == _cache_data(api, t, key, resp.body)
         IN  IF logs_body /\ DictAccessRaises(resp.body)
             THEN [api |-> api2, ret |-> None, net |-> TRUE, stored |-> TRUE]
             ELSE [api |-> api2, ret |-> resp.body, net |-> TRUE, stored |-> TRUE]

point_key(latlon) == <<"point", latlon>>
stations_key(url) == <<"stations", url>>
obs_key(station_id) == <<"obs", station_id>>
\* Mutant: the units asked for are part of the forecast's key.
forecast_key_WithUnits(grid, units) == <<"forecast", grid, units>>

\* The keys of the two forecasts name the grid point; the units the caller
\* asks for go into the request's parameters only.
forecast_key(grid, units) == <<"forecast", grid>>
hourly_key(grid, units) == <<"hourly", grid>>

get_point_data(api, t, latlon, resp) ==
    Accessor(api, t, point_key(latlon), TTL_POINT, resp, FALSE)

get_stations(api, t, url, resp) ==
    Accessor(api, t, stations_key(url), TTL_STATIONS, resp, TRUE)

\* Mutant: the observation kept as long as the point data.
get_current_observations_LongTTL(api, t, station_id, resp) ==
    Accessor(api, t, obs_key(station_id), TTL_POINT, resp, TRUE)

get_current_observations(api, t, station_id, resp) ==
    Accessor(api, t, obs_key(station_id), TTL_OBS, resp, TRUE)

\* Mutant: the forecast checked against the observation's TTL.
get_forecast_ObsTTL(api, t, grid, units, resp) ==
    Accessor(api, t, forecast_key(grid, units), TTL_OBS, resp, TRUE)

\* `resp` is the network's answer to the request made with params units.
get_forecast(api, t, grid, units, resp) ==
    Accessor(api, t, forecast_key(grid, units), TTL_FORECAST, resp, TRUE)

get_hourly_forecast(api, t, grid, units, resp) ==
    Accessor(api, t, hourly_key(grid, units), TTL_HOURLY, resp, TRUE)

\* units='us' is the parameter's default, which the application's calls take.
DefaultUnits == "us"
Units == {"us", "si"}

KeyOf(kind) ==
    CASE kind = "point" -> point_key(LatLon)
      [] kind = "stations" -> stations_key(StationsUrl)
      [] kind = "obs" -> obs_key(StationId)
      [] kind = "forecast" -> forecast_key(Grid, DefaultUnits)
      [] kind = "hourly" -> hourly_key(Grid, DefaultUnits)

Keys == {KeyOf(k) : k \in Kinds}

\* A call of the accessor of the kind; units is passed to the two that take it.
CallWith(kind, api, t, units, resp) ==
    CASE kind = "point" -> get_point_data(api, t, LatLon, resp)
      [] kind = "stations" -> get_stations(api, t, StationsUrl, resp)
      [] kind = "obs" -> get_current_observations(api, t, StationId, resp)
      [] kind = "forecast" -> get_forecast(api, t, Grid, units, resp)
      [] kind = "hourly" -> get_hourly_forecast(api, t, Grid, units, resp)

CallOf(kind, api, t, resp) == CallWith(kind, api, t, DefaultUnits, resp)

Api == [cache |-> cache, cache_time |-> cache_time]

\* age: the age of the key's entry when the call was made, -1 with no entry.
\* t: time.time() at the call.
\* units: the units the call asked for; prior: the units and the body of the
\* key's last store before the call.
NoPrior == [units |-> "none", body |-> None]
NoCall == [kind |-> "none", resp |-> Raised, ret |-> None, net |-> FALSE, age |-> -1,
           units |-> DefaultUnits, prior |-> NoPrior,
           t |-> 0]

Empty == [k \in {} |-> None]

InitAPI ==
    /\ now = 0
    /\ cache = Empty
    /\ cache_time = Empty
    /\ calls = 0
    /\ stored_at = Empty
    /\ stored_with = Empty
    /\ api_call = NoCall

\* One call of an accessor from the client code, with the network's answer.
CallUnits(kind, units, resp) ==
    /\ calls < MaxCalls
    /\ LET r == CallWith(kind, Api, now, units, resp)
           key == KeyOf(kind)
       IN  /\ cache' = r.api.cache
           /\ cache_time' = r.api.cache_time
           /\ stored_at' = IF r.stored THEN Put(stored_at, key, now) ELSE stored_at
           /\ stored_with' = IF r.stored
                             THEN Put(stored_with, key, [units |-> units, body |-> resp.body])
                             ELSE stored_with
           /\ api_call' = [kind |-> kind, resp |-> resp, ret |-> r.ret, net |-> r.net,
                           age |-> IF key \in DOMAIN stored_at
                                   THEN now - stored_at[key] ELSE -1,
                           units |-> units,
                           prior |-> IF key \in DOMAIN stored_with
                                     THEN stored_with[key] ELSE NoPrior,
                           t |-> now]
    /\ calls' = calls + 1
    /\ now' = now
    /\ UNCHANGED <<dataVars, schedVars, moduleVars>>

\* The call as the application makes it, without naming units.
Call(kind, resp) == CallUnits(kind, DefaultUnits, resp)

\* Time passes between calls.
AdvanceClock(t) ==
    /\ t > now
    /\ now' = t
    /\ UNCHANGED <<cache, cache_time, calls, stored_at, stored_with, api_call>>
    /\ UNCHANGED <<dataVars, schedVars, moduleVars>>

NextAPI ==
    \/ \E kind \in Kinds, resp \in Responses : Call(kind, resp)
    \/ \E t \in ClockPoints : AdvanceClock(t)

\* The two forecasts asked for in either unit system, around their TTL.
UnitsKinds == {"forecast", "hourly"}
UnitsClock == {1799, 1800}

NextUnits ==
    \/ \E kind \in UnitsKinds, units \in Units, resp \in Responses :
          CallUnits(kind, units, resp)
    \/ \E t \in UnitsClock : AdvanceClock(t)

(***************************************************************************)
(* WeatherStar4000Complete: the screen catalog.                            *)
(***************************************************************************)
_init_displays ==
    << "CURRENT_CONDITIONS", "LOCAL_FORECAST", "EXTENDED_FORECAST", "HOURLY_FORECAST",
       "REGIONAL_OBSERVATIONS", "TRAVEL_CITIES", "MARINE_FORECAST", "AIR_QUALITY",
       "TEMPERATURE_GRAPH", "WEATHER_RECORDS", "SUN_MOON", "WIND_PRESSURE",
       "WEEKEND_FORECAST", "MONTHLY_OUTLOOK", "ALMANAC", "HAZARDS", "RADAR" >>

base_displays ==
    << "CURRENT_CONDITIONS", "EXTENDED_FORECAST", "HOURLY_FORECAST",
       "REGIONAL_OBSERVATIONS", "TRAVEL_CITIES", "LOCAL_FORECAST", "ALMANAC", "RADAR",
       "HAZARDS", "AIR_QUALITY", "TEMPERATURE_GRAPH", "WEATHER_RECORDS", "SUN_MOON",
       "WIND_PRESSURE", "WEEKEND_FORECAST", "MONTHLY_OUTLOOK" >>

\* list.insert(i, x) for 0 <= i <= len(list)
Insert(list, i, x) == SubSeq(list, 1, i) \o <<x>> \o SubSeq(list, i + 1, Len(list))

NotProgress(mode) == mode # "PROGRESS"

\* The catalog update_display_list assigns to self.displays.
update_display_list(flags) ==
    LET with_marine == IF flags.show_marine
                       THEN Insert(base_displays, 9, "MARINE_FORECAST")
                       ELSE base_displays
        with_msn == IF flags.show_msn THEN Append(with_marine, "MSN_NEWS")
                    ELSE with_marine
        display_list == IF flags.show_reddit THEN Append(with_msn, "REDDIT_NEWS")
                        ELSE with_msn
    IN  SelectSeq(display_list, NotProgress)

Flags == {"show_marine", "show_msn", "show_reddit"}

\* settings.get(flag, False) of __init__: show_marine is False, the two news
\* flags are not set.
InitSettings == [show_marine |-> FALSE, show_msn |-> FALSE, show_reddit |-> FALSE]

(***************************************************************************)
(* WeatherStar4000Complete: location and weather data.  `w` threads the    *)
(* API dictionaries, the history of stores and self.weather_data through   *)
(* the calls; `failed` is an exception that leaves the method.             *)
(***************************************************************************)
REFRESH_S == 300
Office == "MLB"

NoData == [current |-> None, forecast |-> None, hourly |-> None]

World == [api |-> Api, stored_at |-> stored_at, data |-> weather_data,
          station |-> station, office |-> office, ret |-> None, failed |-> FALSE,
          ok |-> TRUE, asked |-> {}, net |-> {}, none |-> {}]

\* asked, net, none: the accessors called so far, those that went to the
\* network, those that returned None.
Fetched(w, kind, t, r) ==
    [w EXCEPT !.api = r.api,
              !.stored_at = IF r.stored THEN Put(@, KeyOf(kind), t) ELSE @,
              !.ret = r.ret,
              !.asked = @ \cup {kind},
              !.net = IF r.net THEN @ \cup {kind} ELSE @,
              !.none = IF r.ret = None THEN @ \cup {kind} ELSE @]

\* One accessor call made by the application; `ret` is what it returned.
Fetch(w, kind, t, resp) == Fetched(w, kind, t, CallOf(kind, w.api, t, resp))

\* `if obs:` is taken for every payload the model holds (a non-empty dict
\* or list); obs.get('properties', {}) raises on a list.
StoreField(w, field) ==
    IF w.ret = None THEN w
    ELSE IF DictAccessRaises(w.ret) THEN [w EXCEPT !.failed = TRUE]
    ELSE [w EXCEPT !.data = [@ EXCEPT ![field] = w.ret]]

\* update_weather_data from the hourly forecast on, from the forecast on,
\* and whole; an exception ends it where it is raised.
UpdateHourly(w, t, rh) ==
    IF w.failed THEN w ELSE StoreField(Fetch(w, "hourly", t, rh), "hourly")

UpdateForecast(w, t, rf, rh) ==
    IF w.failed THEN w
    ELSE UpdateHourly(StoreField(Fetch(w, "forecast", t, rf), "forecast"), t, rh)

\* Mutant: without a station the forecasts, which need only the grid, are
\* still asked for.
update_weather_data_GridOnly(w, t, ro, rf, rh) ==
    IF w.office = "None" THEN w
    ELSE IF w.station = "None" THEN UpdateForecast(w, t, rf, rh)
    ELSE UpdateForecast(StoreField(Fetch(w, "obs", t, ro), "current"), t, rf, rh)

update_weather_data(w, t, ro, rf, rh) ==
    IF w.station = "None" \/ w.office = "None" THEN w
    ELSE UpdateForecast(StoreField(Fetch(w, "obs", t, ro), "current"), t, rf, rh)

\* initialize_location once the station list is asked for, once the point
\* data is asked for, and whole; `ok` is its return value.  The point payload
\* of the documented layout names the grid office and the stations URL; a
\* station list of that layout has a first feature, whose station is taken.
LocateStation(w) ==
    IF w.ret = None THEN w
    ELSE IF DictAccessRaises(w.ret) THEN [w EXCEPT !.failed = TRUE]
    ELSE [w EXCEPT !.station = StationId]

LocatePoint(w, t, rs) ==
    IF w.ret = None THEN [w EXCEPT !.ok = FALSE]
    ELSE IF DictAccessRaises(w.ret) THEN [w EXCEPT !.failed = TRUE]
    ELSE LocateStation(Fetch([w EXCEPT !.office = Office], "stations", t, rs))

initialize_location(w, t, rp, rs) == LocatePoint(Fetch(w, "point", t, rp), t, rs)

CommitWorld(w) ==
    /\ cache' = w.api.cache
    /\ cache_time' = w.api.cache_time
    /\ stored_at' = w.stored_at
    /\ stored_with' = [k \in DOMAIN w.stored_at |->
                          [units |-> DefaultUnits, body |-> w.api.cache[k]]]
    /\ weather_data' = w.data
    /\ station' = w.station
    /\ office' = w.office

(***************************************************************************)
(* weatherstar_modules/history_graphs.py and display_history.py: the       *)
(* 30-day history.  time.time() is Epoch + now here, because               *)
(* WeatherHistoryGraph.cache_time starts at 0, not at the time of a fetch. *)
(* `h` is the pair [data, cache_time] of a WeatherHistoryGraph.             *)
(***************************************************************************)
Epoch == 1700000000
time_time(t) == Epoch + t
cache_duration == 3600

\* The days of a fetched series (30 in the program).
MaxDays == 2

\* A daily value of the Open-Meteo answer: a number, or null (None).
Missing == [null |-> TRUE, v |-> 0]
Value(x) == [null |-> FALSE, v |-> x]

AllDays(n, x) == [i \in 1..n |-> x]
MissingAt(n, k, x) == [i \in 1..n |-> IF i = k THEN Missing ELSE x]

\* data.get('daily', {}) of an answer: the dates and the three series.
NoDaily == [time |-> <<>>, temperature_2m_max |-> <<>>, temperature_2m_min |-> <<>>,
            precipitation_sum |-> <<>>]
Dailies ==
    {NoDaily} \cup
    [time : {[i \in 1..MaxDays |-> i]},
     temperature_2m_max : {AllDays(MaxDays, Value(80)), AllDays(MaxDays, Value(90))}
                          \cup {MissingAt(MaxDays, k, Value(80)) : k \in 1..MaxDays},
     temperature_2m_min : {AllDays(MaxDays, Value(60)),
                           MissingAt(MaxDays, MaxDays, Value(60))},
     precipitation_sum : {AllDays(MaxDays, Value(1)), AllDays(MaxDays, Value(0)),
                          AllDays(MaxDays, Missing)}]

\* requests.get of fetch_history_data: it raises, or answers with a status and
\* a body; `decoded` is "object" for a JSON object, "array" for a body on
\* which data.get raises, "undecodable" when response.json() raises.
HistoryRaised == [raised |-> TRUE, status |-> 0, decoded |-> "none", daily |-> NoDaily]
HistoryResponses ==
    {HistoryRaised}
    \cup {[raised |-> FALSE, status |-> 500, decoded |-> "undecodable",
           daily |-> NoDaily]}
    \cup [raised : {FALSE}, status : {200}, decoded : {"array", "undecodable"},
          daily : {NoDaily}]
    \cup [raised : {FALSE}, status : {200}, decoded : {"object"}, daily : Dailies]

\* The first day whose temp_max or temp_min is None, from day i on;
\* len(dates) + 1 when there is none.
RECURSIVE FirstMissing(_, _)
FirstMissing(daily, i) ==
    IF i > Len(daily.time) THEN i
    ELSE IF daily.temperature_2m_max[i].null \/ daily.temperature_2m_min[i].null THEN i
    ELSE FirstMissing(daily, i + 1)

\* (dates[i], avg_temp, temp_max[i], temp_min[i]); the values of the model
\* have an even sum.
TemperatureEntry(daily, i) ==
    << daily.time[i],
       (daily.temperature_2m_max[i].v + daily.temperature_2m_min[i].v) \div 2,
       daily.temperature_2m_max[i].v, daily.temperature_2m_min[i].v >>

\* (dates[i], precip[i] if precip[i] else 0)
PrecipitationEntry(daily, i) ==
    << daily.time[i],
       IF daily.precipitation_sum[i].null \/ daily.precipitation_sum[i].v = 0
       THEN 0 ELSE daily.precipitation_sum[i].v >>

\* The list the first loop has built when it ends or when
\* temp_max[i] + temp_min[i] raises TypeError on a None.
TemperatureLoop(daily) ==
    [i \in 1..(FirstMissing(daily, 1) - 1) |-> TemperatureEntry(daily, i)]

PrecipitationLoop(daily) ==
    [i \in 1..Len(daily.time) |-> PrecipitationEntry(daily, i)]

HistoryResult(h_data, h_cache_time, ret, net) ==
    [data |-> h_data, cache_time |-> h_cache_time, ret |-> ret, net |-> net]

fetch_history_data(h, t, resp) ==
    IF time_time(t) - h.cache_time < cache_duration
    THEN HistoryResult(h.data, h.cache_time, Len(h.data.temperature) > 0, FALSE)
    ELSE IF resp.raised \/ resp.status # 200 \/ resp.decoded # "object"
    THEN HistoryResult(h.data, h.cache_time, FALSE, TRUE)
    ELSE IF FirstMissing(resp.daily, 1) <= Len(resp.daily.time)
    THEN HistoryResult([h.data EXCEPT !.temperature = TemperatureLoop(resp.daily)],
                       h.cache_time, FALSE, TRUE)
    ELSE HistoryResult([temperature |-> TemperatureLoop(resp.daily),
                        precipitation |-> PrecipitationLoop(resp.daily)],
                       time_time(t), TRUE, TRUE)

\* draw_history_graphs up to the drawing: the fetch is asked for only while
\* the temperature series is empty.
draw_history_graphs(h, t, resp) ==
    IF h.data.temperature = <<>>
    THEN fetch_history_data(h, t, resp)
    ELSE HistoryResult(h.data, h.cache_time, FALSE, FALSE)

WeatherHistoryGraph == [data |-> history_data, cache_time |-> history_cache_time]

\* fetched_at: the time of the last fetch that succeeded, -1 if there is none;
\* age: the time since then when the call was made.
NoHistoryCall == [op |-> "none", resp |-> HistoryRaised, net |-> FALSE, ret |-> FALSE,
                  age |-> -1, fetched_at |-> -1]

InitHistory ==
    /\ history_data = [temperature |-> <<>>, precipitation |-> <<>>]
    /\ history_cache_time = 0
    /\ history_call = NoHistoryCall

HistoryCall(op, r, resp) ==
    /\ history_data' = r.data
    /\ history_cache_time' = r.cache_time
    /\ history_call' = [op |-> op, resp |-> resp, net |-> r.net, ret |-> r.ret,
                        age |-> IF history_call.fetched_at = -1 THEN -1
                                ELSE now - history_call.fetched_at,
                        fetched_at |-> IF r.net /\ r.ret THEN now
                                       ELSE history_call.fetched_at]
    /\ UNCHANGED <<apiVars, dataVars, schedVars, surfaceVars, perfVars, voiceVars,
                   alertVars>>

\* A call of fetch_history_data, with the network's answer.
FetchHistory(resp) ==
    HistoryCall("fetch", fetch_history_data(WeatherHistoryGraph, now, resp), resp)

\* The history screen is drawn.
DrawHistoryGraphs(resp) ==
    HistoryCall("draw", draw_history_graphs(WeatherHistoryGraph, now, resp), resp)

HistoryClock == {3599, 3600, 7200}

NextHistory ==
    \/ \E resp \in HistoryResponses : FetchHistory(resp)
    \/ \E resp \in HistoryResponses : DrawHistoryGraphs(resp)
    \/ \E t \in HistoryClock : AdvanceClock(t)

(***************************************************************************)
(* weatherstar_modules/performance.py: SurfaceCache.  access_times is the  *)
(* dict as the sequence of its items in insertion order, which is the      *)
(* order min() takes the first of several oldest keys from.                *)
(***************************************************************************)
MaxCacheSize == 2
SurfaceKeys == {"key0", "key1", "key2"}
SurfaceImages == {"image1", "image2"}
SurfaceClock == {1, 2}

DictKeys(d) == {d[i].key : i \in 1..Len(d)}

DictSet(d, key, t) ==
    IF key \in DictKeys(d)
    THEN [i \in 1..Len(d) |-> IF d[i].key = key THEN [key |-> key, time |-> t] ELSE d[i]]
    ELSE Append(d, [key |-> key, time |-> t])

DictDel(d, key) == SelectSeq(d, LAMBDA e : e.key # key)

FunDel(f, key) == [k \in DOMAIN f \ {key} |-> f[k]]

\* min(self.access_times.keys(), key=lambda k: self.access_times[k])
oldest_key(d) ==
    LET i == CHOOSE i \in 1..Len(d) :
                 /\ \A j \in 1..Len(d) : d[i].time <= d[j].time
                 /\ \A j \in 1..(i - 1) : d[j].time > d[i].time
    IN  d[i].key

Evicted(sc) ==
    IF Cardinality(DOMAIN sc.cache) >= sc.max_size
    THEN [sc EXCEPT !.cache = FunDel(@, oldest_key(sc.access_times)),
                    !.access_times = DictDel(@, oldest_key(sc.access_times))]
    ELSE sc

SurfaceCache_put(sc, t, key, surface) ==
    [Evicted(sc) EXCEPT !.cache = Put(@, key, surface),
                        !.access_times = DictSet(@, key, t),
                        !.ret = "None"]

SurfaceCache_get(sc, t, key) ==
    IF key \in DOMAIN sc.cache
    THEN [sc EXCEPT !.access_times = DictSet(@, key, t), !.ret = sc.cache[key]]
    ELSE [sc EXCEPT !.ret = "None"]

SurfaceCache_clear(sc) ==
    [sc EXCEPT !.cache = Empty, !.access_times = <<>>, !.ret = "None"]

SurfaceCache ==
    [cache |-> surfaces, access_times |-> access_times, max_size |-> max_size,
     ret |-> "None"]

\* puts: the distinct keys put since the cache was constructed or cleared.
NoSurfaceCall == [op |-> "none", key |-> "none", surface |-> "None", ret |-> "None",
                  puts |-> {}]

InitSurface ==
    /\ max_size = 0
    /\ surfaces = Empty
    /\ access_times = <<>>
    /\ surface_call = NoSurfaceCall

\* SurfaceCache(max_size = n)
NewSurfaceCache(n) ==
    /\ max_size = 0
    /\ max_size' = n
    /\ UNCHANGED <<surfaces, access_times, surface_call>>
    /\ UNCHANGED <<apiVars, dataVars, schedVars, historyVars, perfVars, voiceVars,
                   alertVars>>

SurfaceCall(op, key, surface, sc, puts) ==
    /\ max_size > 0
    /\ surfaces' = sc.cache
    /\ access_times' = sc.access_times
    /\ surface_call' = [op |-> op, key |-> key, surface |-> surface, ret |-> sc.ret,
                        puts |-> puts]
    /\ UNCHANGED <<max_size, apiVars, dataVars, schedVars, historyVars, perfVars,
                   voiceVars, alertVars>>

SurfacePut(key, surface) ==
    SurfaceCall("put", key, surface, SurfaceCache_put(SurfaceCache, now, key, surface),
                surface_call.puts \cup {key})

SurfaceGet(key) ==
    SurfaceCall("get", key, "None", SurfaceCache_get(SurfaceCache, now, key),
                surface_call.puts)

SurfaceClear ==
    SurfaceCall("clear", "none", "None", SurfaceCache_clear(SurfaceCache), {})

NextSurface ==
    \/ \E n \in 1..MaxCacheSize : NewSurfaceCache(n)
    \/ \E key \in SurfaceKeys, surface \in SurfaceImages : SurfacePut(key, surface)
    \/ \E key \in SurfaceKeys : SurfaceGet(key)
    \/ SurfaceClear
    \/ \E t \in SurfaceClock : AdvanceClock(t)

(***************************************************************************)
(* weatherstar_modules/performance.py: PerformanceMonitor and the adaptive *)
(* frame skipping of PerformanceOptimizer.  Frame times are in ms.         *)
(***************************************************************************)
TARGET_FPS == 30

\* max_samples (60 in the program): the frame times the monitor keeps.
MaxSamples == 3
\* monitor.frame_count stops growing here.
MaxFrames == 12

\* The time between two calls of PerformanceMonitor.update, ms.
FrameTimes == {0, 20, 100}

RECURSIVE SumSeq(_)
SumSeq(q) == IF q = <<>> THEN 0 ELSE Head(q) + SumSeq(Tail(q))

\* frame_times after the append and the pop(0) beyond max_samples.
Sampled(times, frame_time) ==
    LET appended == Append(times, frame_time)
    IN  IF Len(appended) > MaxSamples THEN Tail(appended) ELSE appended

\* current_fps < target_fps * 0.7, where fps is 1.0 / avg_frame_time, or 0
\* when the average frame time is 0: with the times in ms,
\* 1000 * len / sum < 0.7 * target.
BelowTarget(times, target_fps) ==
    IF SumSeq(times) = 0
    THEN 0 < 7 * target_fps
    ELSE 10000 * Len(times) < 7 * target_fps * SumSeq(times)

\* `m` is the pair [frame_times, frame_count] of a PerformanceMonitor.
PerformanceMonitor_update(m, frame_time) ==
    [frame_times |-> Sampled(m.frame_times, frame_time),
     frame_count |-> m.frame_count + 1]

\* PerformanceOptimizer.update: the monitor's update, then frame_skip from
\* the monitor's fps (periodic_cleanup collects garbage only).
PerformanceOptimizer_update(m, frame_time, target_fps) ==
    LET m2 == PerformanceMonitor_update(m, frame_time)
    IN  [monitor |-> m2,
         frame_skip |-> IF BelowTarget(m2.frame_times, target_fps) THEN 1 ELSE 0]

\* should_skip_frame: with frame_skip set it counts a frame on the monitor's
\* counter and answers by the counter's parity.
should_skip_frame(m, skip) ==
    IF skip > 0
    THEN [monitor |-> [m EXCEPT !.frame_count = @ + 1],
          ret |-> (m.frame_count + 1) % 2 = 0]
    ELSE [monitor |-> m, ret |-> FALSE]

Monitor == [frame_times |-> frame_times, frame_count |-> frame_count]

\* ret, low: the answer of the latest should_skip_frame call and whether
\* frame_skip was set in it; prev_ret, prev_low: the same of the call before;
\* gap: the update calls made between those two calls; updates: the update
\* calls made since the latest; skips: the should_skip_frame calls so far.
NoPerfCall == [op |-> "none", ret |-> FALSE, low |-> FALSE, prev_ret |-> FALSE,
               prev_low |-> FALSE, gap |-> 0, updates |-> 0, skips |-> 0]

Capped(n) == IF n < 2 THEN n + 1 ELSE 2

InitPerf ==
    /\ frame_times = <<>>
    /\ frame_count = 0
    /\ frame_skip = 0
    /\ perf_call = NoPerfCall

\* The host calls optimizer.update(), frame_time ms after its last call.
OptimizerUpdate(frame_time) ==
    /\ frame_count < MaxFrames
    /\ LET r == PerformanceOptimizer_update(Monitor, frame_time, TARGET_FPS)
       IN  /\ frame_times' = r.monitor.frame_times
           /\ frame_count' = r.monitor.frame_count
           /\ frame_skip' = r.frame_skip
    /\ perf_call' = [perf_call EXCEPT !.op = "update", !.updates = Capped(@)]
    /\ UNCHANGED <<apiVars, dataVars, schedVars, historyVars, surfaceVars,
                   voiceVars, alertVars>>

\* The host calls optimizer.should_skip_frame().
ShouldSkipFrame ==
    /\ frame_count < MaxFrames
    /\ LET r == should_skip_frame(Monitor, frame_skip)
       IN  /\ frame_count' = r.monitor.frame_count
           /\ perf_call' = [op |-> "should_skip_frame", ret |-> r.ret,
                            low |-> frame_skip > 0, prev_ret |-> perf_call.ret,
                            prev_low |-> perf_call.low, gap |-> perf_call.updates,
                            updates |-> 0, skips |-> Capped(perf_call.skips)]
    /\ UNCHANGED <<frame_times, frame_skip>>
    /\ UNCHANGED <<apiVars, dataVars, schedVars, historyVars, surfaceVars,
                   voiceVars, alertVars>>

NextPerf ==
    \/ \E frame_time \in FrameTimes : OptimizerUpdate(frame_time)
    \/ ShouldSkipFrame

(***************************************************************************)
(* weatherstar_modules/voice_narration.py: VoiceNarrator with a TTS engine *)
(* and both audio callbacks set.  Each speak_worker runs in a thread of    *)
(* its own; `workers` holds where each thread is:                          *)
(*   "none"     no thread,                                                 *)
(*   "start"    started, before is_speaking = True,                        *)
(*   "flagged"  before duck_callback(),                                    *)
(*   "ducked"   after duck_callback(): the pauses and the speech,          *)
(*   "spoken"   the speech ended or raised, before the finally clause,     *)
(*   "cleared"  after is_speaking = False, before restore_callback(),      *)
(*   "done"     the thread ended.                                          *)
(***************************************************************************)
min_announcement_interval == 2

\* The threads alive at once.
MaxWorkers == 2
Workers == 1..MaxWorkers

Free(w) == workers[w] \in {"none", "done"}

InitVoice ==
    /\ enabled = FALSE
    /\ is_speaking = FALSE
    /\ last_announcement_time = 0
    /\ workers = [w \in Workers |-> "none"]
    /\ music_ducked = FALSE

UnchangedByVoice ==
    UNCHANGED <<apiVars, dataVars, schedVars, historyVars, surfaceVars,
                perfVars, alertVars>>

set_enabled(b) ==
    /\ enabled # b
    /\ enabled' = b
    /\ UNCHANGED <<is_speaking, last_announcement_time, workers, music_ducked>>
    /\ UnchangedByVoice

\* _speak_async with a text, where it does not return early: the
\* announcement is accepted and its thread started.
_speak_async(w) ==
    /\ enabled
    /\ ~(time_time(now) - last_announcement_time < min_announcement_interval)
    /\ Free(w) /\ \A v \in Workers : Free(v) => w <= v
    /\ last_announcement_time' = time_time(now)
    /\ workers' = [workers EXCEPT ![w] = "start"]
    /\ UNCHANGED <<enabled, is_speaking, music_ducked>>
    /\ UnchangedByVoice

\* One statement of speak_worker in thread w.
WorkerStep(w, from, to) ==
    /\ workers[w] = from
    /\ workers' = [workers EXCEPT ![w] = to]
    /\ UNCHANGED <<enabled, last_announcement_time>>
    /\ UnchangedByVoice

SetSpeaking(w) ==
    /\ WorkerStep(w, "start", "flagged")
    /\ is_speaking' = TRUE
    /\ UNCHANGED music_ducked

Duck(w) ==
    /\ WorkerStep(w, "flagged", "ducked")
    /\ music_ducked' = TRUE
    /\ UNCHANGED is_speaking

\* sleep, say, runAndWait, sleep: they return, or one of them raises.
Speak(w) ==
    /\ WorkerStep(w, "ducked", "spoken")
    /\ UNCHANGED <<is_speaking, music_ducked>>

ClearSpeaking(w) ==
    /\ WorkerStep(w, "spoken", "cleared")
    /\ is_speaking' = FALSE
    /\ UNCHANGED music_ducked

Restore(w) ==
    /\ WorkerStep(w, "cleared", "done")
    /\ music_ducked' = FALSE
    /\ UNCHANGED is_speaking

\* The seconds at which the host may announce.
VoiceClock == {1, 2, 3, 5}

NextVoice ==
    \/ \E b \in BOOLEAN : set_enabled(b)
    \/ \E w \in Workers : _speak_async(w)
    \/ \E w \in Workers : SetSpeaking(w)
    \/ \E w \in Workers : Duck(w)
    \/ \E w \in Workers : Speak(w)
    \/ \E w \in Workers : ClearSpeaking(w)
    \/ \E w \in Workers : Restore(w)
    \/ \E t \in VoiceClock : AdvanceClock(t)

(***************************************************************************)
(* weatherstar_modules/emergency_animations.py and display_history.py:     *)
(* the severe weather alert screen.  `a` is an EmergencyAlertAnimator; dt  *)
(* is in ms and scroll_offset in thousandths of a pixel.                   *)
(***************************************************************************)
flash_interval == 500
scroll_speed == 50

\* scroll_offset stops growing here.
MaxScroll == 20000

\* time.time() * 1000, counted from 1000 s before the program's start: the
\* code compares it with 0 and with its own earlier readings only.
StartMs == 1000000
time_ms(t) == StartMs + t * 1000

set_alert(a, active) ==
    IF active
    THEN [a EXCEPT !.alert_active = TRUE, !.scroll_offset = 0]
    ELSE [a EXCEPT !.alert_active = FALSE]

Flashed(a, current_time) ==
    IF current_time - a.last_flash_time > flash_interval
    THEN [a EXCEPT !.flash_state = ~@, !.last_flash_time = current_time]
    ELSE a

EmergencyAlertAnimator_update(a, t, dt) ==
    [Flashed(a, time_ms(t)) EXCEPT !.scroll_offset = @ + scroll_speed * dt]

EmergencyAlertAnimator_reset(a) ==
    [a EXCEPT !.scroll_offset = 0, !.flash_state = FALSE, !.alert_active = FALSE]

\* `d` is a SevereWeatherDisplay: its animator and current_alerts.
set_alerts(d, alerts) ==
    [animator |-> set_alert(d.animator, Len(alerts) > 0), current_alerts |-> alerts]

draw_full_alert_screen(d, t, dt) ==
    IF d.current_alerts = <<>> THEN d
    ELSE [d EXCEPT !.animator = EmergencyAlertAnimator_update(@, t, dt)]

\* draw_severe_weather_alert with the alerts it found in weather_data.
draw_severe_weather_alert(d, alerts, t, dt) ==
    IF alerts # <<>>
    THEN draw_full_alert_screen(set_alerts(d, alerts), t, dt)
    ELSE d

SevereWeatherDisplay == [animator |-> animator, current_alerts |-> current_alerts]

\* seq flips with every call.
NoAlertCall == [op |-> "none", alerts |-> <<>>, dt |-> 0, seq |-> 0]

InitAlert ==
    /\ animator = [flash_state |-> FALSE, last_flash_time |-> 0, scroll_offset |-> 0,
                   alert_active |-> FALSE]
    /\ current_alerts = <<>>
    /\ alert_call = NoAlertCall

\* One call into the alert screen's code; d is the display after it.
AlertCall(op, d, alerts, dt) ==
    /\ d.animator.scroll_offset <= MaxScroll
    /\ animator' = d.animator
    /\ current_alerts' = d.current_alerts
    /\ alert_call' = [op |-> op, alerts |-> alerts, dt |-> dt,
                       seq |-> 1 - alert_call.seq]
    /\ UNCHANGED <<apiVars, dataVars, schedVars, historyVars, surfaceVars,
                   perfVars, voiceVars>>

\* One frame of the alert screen.
DrawSevereWeatherAlert(alerts, dt) ==
    AlertCall("draw_severe_weather_alert",
              draw_severe_weather_alert(SevereWeatherDisplay, alerts, now, dt), alerts, dt)

SetAlerts(alerts) ==
    AlertCall("set_alerts", set_alerts(SevereWeatherDisplay, alerts), alerts, 0)

DrawFullAlertScreen(dt) ==
    AlertCall("draw_full_alert_screen",
              draw_full_alert_screen(SevereWeatherDisplay, now, dt), current_alerts, dt)

ResetAnimator ==
    AlertCall("reset",
              [SevereWeatherDisplay EXCEPT !.animator = EmergencyAlertAnimator_reset(@)],
              current_alerts, 0)

AlertLists == {<<>>, <<"tornado">>, <<"tornado", "flood">>}
AlertDts == {20, 100}
AlertClock == {1}

NextAlert ==
    \/ \E alerts \in AlertLists, dt \in AlertDts : DrawSevereWeatherAlert(alerts, dt)
    \/ \E alerts \in AlertLists : SetAlerts(alerts)
    \/ \E dt \in AlertDts : DrawFullAlertScreen(dt)
    \/ ResetAnimator
    \/ \E t \in AlertClock : AdvanceClock(t)

(***************************************************************************)
(* WeatherStar4000Complete: the scheduler.  The fields an iteration of the *)
(* main loop works on are threaded through its steps as a record; `failed` *)
(* is set by an exception that leaves the loop (the except clause around   *)
(* the while loop ends run()).                                             *)
(***************************************************************************)
DISPLAY_DURATION_MS == 15000
ALPHA_START == 255
ALPHA_STEP == 10

Sched ==
    [index |-> current_display_index, timer |-> display_timer, playing |-> is_playing,
     active |-> transition_active, alpha |-> transition_alpha,
     surface |-> transition_surface, screen |-> screen, running |-> TRUE,
     failed |-> FALSE, auto |-> FALSE, draw_raises |-> FALSE, raised |-> FALSE]

InRange(s) == s.index < Len(displays)

cycle_display(s) ==
    LET started == [s EXCEPT !.active = TRUE, !.alpha = ALPHA_START,
                             !.surface = s.screen]
    IN  IF ~InRange(started)
        THEN [started EXCEPT !.failed = TRUE]
        ELSE [started EXCEPT !.index = (s.index + 1) % Len(displays), !.timer = 0]

\* Mutant: previous stops at the first screen instead of wrapping.
previous_display_NoWrap(s) ==
    IF ~InRange(s)
    THEN [s EXCEPT !.failed = TRUE]
    ELSE [s EXCEPT !.index = IF s.index = 0 THEN 0 ELSE s.index - 1, !.timer = 0]

\* The K_LEFT branch of the event loop.
previous_display(s) ==
    IF ~InRange(s)
    THEN [s EXCEPT !.failed = TRUE]
    ELSE [s EXCEPT !.index = (s.index - 1) % Len(displays), !.timer = 0]

\* The events one frame delivers: none, or one of these.
NavEvents == {"none", "space", "right", "left"}
Events == NavEvents \cup {"menu", "quit"}

\* Mutant: resuming starts the dwell of the current screen anew.
HandleEvent_ResumeResets(s, ev) ==
    CASE ev = "quit" -> [s EXCEPT !.running = FALSE]
      [] ev = "space" -> [s EXCEPT !.playing = ~s.playing,
                                   !.timer = IF s.playing THEN s.timer ELSE 0]
      [] ev = "right" -> cycle_display(s)
      [] ev = "left" -> previous_display(s)
      [] OTHER -> s

\* The event loop of one iteration, for the events that do not open the menu.
HandleEvent(s, ev) ==
    CASE ev = "quit" -> [s EXCEPT !.running = FALSE]
      [] ev = "space" -> [s EXCEPT !.playing = ~s.playing]
      [] ev = "right" -> cycle_display(s)
      [] ev = "left" -> previous_display(s)
      [] OTHER -> s

\* Mutant: the dwell must exceed the duration.
AutoCycle_Strict(s) ==
    IF s.failed THEN s
    ELSE IF s.playing /\ s.timer > DISPLAY_DURATION_MS
         THEN [cycle_display(s) EXCEPT !.auto = TRUE]
         ELSE s

\* Mutant: the dwell timer advances the screen whether paused or not.
AutoCycle_IgnorePause(s) ==
    IF s.failed THEN s
    ELSE IF s.timer >= DISPLAY_DURATION_MS
         THEN [cycle_display(s) EXCEPT !.auto = TRUE]
         ELSE s

AutoCycle(s) ==
    IF s.failed THEN s
    ELSE IF s.playing /\ s.timer >= DISPLAY_DURATION_MS
         THEN [cycle_display(s) EXCEPT !.auto = TRUE]
         ELSE s

\* Mutant: no try around the draw dispatch.
Draw_Uncaught(s) ==
    IF s.failed THEN s
    ELSE IF ~InRange(s) THEN [s EXCEPT !.failed = TRUE]
    ELSE IF s.draw_raises
         THEN [s EXCEPT !.screen = "torn", !.raised = TRUE, !.failed = TRUE]
    ELSE [s EXCEPT !.screen = displays[s.index + 1]]

\* current_mode = self.displays[self.current_display_index], then the draw
\* dispatch inside its try: the frame on the screen becomes that mode's, or,
\* when the draw method raises, what it had drawn until then; the except
\* clause logs the error.
Draw(s) ==
    IF s.failed THEN s
    ELSE IF ~InRange(s) THEN [s EXCEPT !.failed = TRUE]
    ELSE IF s.draw_raises THEN [s EXCEPT !.screen = "torn", !.raised = TRUE]
    ELSE [s EXCEPT !.screen = displays[s.index + 1]]

TransitionEffect(s) ==
    IF s.failed \/ ~s.active THEN s
    ELSE IF s.alpha > 0
         THEN [s EXCEPT !.alpha = s.alpha - ALPHA_STEP]
         ELSE [s EXCEPT !.active = FALSE, !.surface = "None"]

\* Mutant: no 5-minute update while the scheduler is paused.
RefreshDue_WhilePlaying(s, t) == ~s.failed /\ s.playing /\ t - last_update > REFRESH_S

\* The 5-minute update of the iteration: due when more than 300 s passed
\* since last_update; an exception of update_weather_data leaves the loop.
RefreshDue(s, t) == ~s.failed /\ t - last_update > REFRESH_S

Refreshed(s, t, ro, rf, rh) ==
    IF RefreshDue(s, t) THEN update_weather_data(World, t, ro, rf, rh) ELSE World

\* The end of an iteration: the fields go back to the object.
EndIteration(s, w, due, dt, ev, t) ==
    /\ current_display_index' = s.index
    /\ display_timer' = s.timer
    /\ is_playing' = s.playing
    /\ transition_active' = s.active
    /\ transition_alpha' = s.alpha
    /\ transition_surface' = s.surface
    /\ screen' = s.screen
    /\ pc' = IF s.failed \/ ~s.running THEN "stopped" ELSE "loop"
    /\ tick' = [dt |-> dt, ev |-> ev, auto |-> s.auto,
                draw_raised |-> s.raised,
                after_raise |-> tick.draw_raised,
                refresh |-> due, asked |-> w.asked, net |-> w.net,
                none |-> IF due THEN w.none ELSE tick.none]
    /\ CommitWorld(w)
    /\ last_update' = IF due /\ ~w.failed THEN t ELSE last_update
    /\ now' = t
    /\ UNCHANGED moduleVars

\* The draw of the current screen and the transition effect, unless the
\* update raised.
DrawFrame(s, w, due, dt, ev, t) ==
    EndIteration(TransitionEffect(Draw([s EXCEPT !.failed = @ \/ w.failed])),
                 w, due, dt, ev, t)

\* The 5-minute update, then the frame.
RefreshAndDraw(s, dt, ev, t, ro, rf, rh) ==
    DrawFrame(s, Refreshed(s, t, ro, rf, rh), RefreshDue(s, t), dt, ev, t)

\* Mutant: the auto-cycle check takes the pause state the iteration began
\* with (the check made before the events take effect).
AfterEvents_EarlyCheck(s, dt, ev, t, ro, rf, rh) ==
    RefreshAndDraw(IF is_playing /\ display_timer + dt >= DISPLAY_DURATION_MS
                      /\ ~s.failed
                   THEN [cycle_display(s) EXCEPT !.auto = TRUE]
                   ELSE s,
                   dt, ev, t, ro, rf, rh)

\* What follows the event loop in one iteration: auto-cycle, the 5-minute
\* update, the draw of the current screen, the transition effect.  `t` is
\* time.time() in this iteration, ro, rf, rh the network's answers to the
\* update's three requests.
AfterEvents(s, dt, ev, t, ro, rf, rh) ==
    RefreshAndDraw(AutoCycle(s), dt, ev, t, ro, rf, rh)

\* dt, ev: the iteration's inputs; auto: the auto-cycle branch was taken;
\* draw_raised: the draw method raised in it, after_raise: in the one before;
\* refresh: update_weather_data was called, with asked and net as in World;
\* none: the accessors that returned None in the latest update.
NoTick == [dt |-> 0, ev |-> "none", auto |-> FALSE, draw_raised |-> FALSE,
           after_raise |-> FALSE, refresh |-> FALSE, asked |-> {}, net |-> {},
           none |-> {}]

InitSched ==
    /\ settings = InitSettings
    /\ displays = _init_displays
    /\ current_display_index = 0
    /\ display_timer = 0
    /\ is_playing = TRUE
    /\ transition_active = FALSE
    /\ transition_alpha = ALPHA_START
    /\ transition_surface = "None"
    /\ screen = "blank"
    /\ station = "None"
    /\ office = "None"
    /\ weather_data = NoData
    /\ last_update = 0
    /\ pc = "start"
    /\ tick = NoTick

Init ==
    /\ InitAPI /\ InitSched /\ InitHistory /\ InitSurface
    /\ InitPerf /\ InitVoice /\ InitAlert

\* run() up to its loop: initialize_location, the initial
\* update_weather_data, last_update = time.time().  run() returns when the
\* location cannot be initialized; an exception here leaves run().
StartLoop(w) ==
    /\ CommitWorld(w)
    /\ pc' = IF w.ok /\ ~w.failed THEN "loop" ELSE "stopped"
    /\ tick' = [NoTick EXCEPT !.asked = w.asked, !.net = w.net, !.none = w.none]

InitialUpdate(w, t, ro, rf, rh) ==
    IF w.ok /\ ~w.failed THEN update_weather_data(w, t, ro, rf, rh) ELSE w

Start(rp, rs, ro, rf, rh) ==
    /\ pc = "start"
    /\ StartLoop(InitialUpdate(initialize_location(World, now, rp, rs),
                               now, ro, rf, rh))
    /\ last_update' = now
    /\ UNCHANGED <<now, calls, api_call, moduleVars>>
    /\ UNCHANGED <<settings, displays, current_display_index, display_timer,
                   is_playing, transition_active, transition_alpha,
                   transition_surface, screen>>

\* One iteration of the while loop of run() whose events do not open the
\* menu: dt = clock.tick(30), the event, and what follows the event loop.
\* draw_raises: the draw method of the current screen raises in it.
Tick(dt, ev, t, ro, rf, rh, draw_raises) ==
    /\ pc = "loop"
    /\ ev # "menu"
    /\ display_timer + dt <= MaxTimer
    /\ t >= now /\ t <= MaxClock
    /\ LET timed == [Sched EXCEPT !.timer = display_timer + dt,
                                 !.draw_raises = draw_raises]
       IN  AfterEvents(HandleEvent(timed, ev), dt, ev, t, ro, rf, rh)
    /\ UNCHANGED <<settings, displays, calls, api_call>>

\* An iteration in which the 5-minute update is due, up to the requests of
\* update_weather_data: the event and the auto-cycle have acted on the
\* object's fields, and the loop's thread is inside requests.get (timeout 10 s
\* per request).
BeginRefresh(dt, ev, t) ==
    /\ pc = "loop"
    /\ ev \notin {"menu", "quit"}
    /\ display_timer + dt <= MaxTimer
    /\ t >= now /\ t <= MaxClock
    /\ station # "None" /\ office # "None"
    /\ LET s == AutoCycle(HandleEvent([Sched EXCEPT !.timer = display_timer + dt], ev))
       IN  /\ RefreshDue(s, t)
           /\ current_display_index' = s.index
           /\ display_timer' = s.timer
           /\ is_playing' = s.playing
           /\ transition_active' = s.active
           /\ transition_alpha' = s.alpha
           /\ transition_surface' = s.surface
           /\ tick' = [NoTick EXCEPT !.dt = dt, !.ev = ev, !.auto = s.auto,
                                     !.refresh = TRUE, !.none = tick.none]
    /\ pc' = "fetch"
    /\ now' = t
    /\ UNCHANGED <<settings, displays, screen>>
    /\ UNCHANGED <<cache, cache_time, calls, stored_at, stored_with, api_call, dataVars,
                   moduleVars>>

\* The network's answers arrive (or the requests time out) at time t:
\* update_weather_data returns and the iteration runs to its end.
FetchDone(t, ro, rf, rh) ==
    /\ pc = "fetch"
    /\ t >= now
    /\ DrawFrame([Sched EXCEPT !.auto = tick.auto],
                 update_weather_data(World, t, ro, rf, rh), TRUE, tick.dt, tick.ev, t)
    /\ UNCHANGED <<settings, displays, calls, api_call>>

\* An iteration whose event (M key, right click) opens the settings menu:
\* show_context_menu blocks inside the event loop.
OpenMenu(dt) ==
    /\ pc = "loop"
    /\ display_timer + dt <= MaxTimer
    /\ display_timer' = display_timer + dt
    /\ pc' = "menu"
    /\ tick' = [NoTick EXCEPT !.dt = dt, !.ev = "menu", !.none = tick.none]
    /\ UNCHANGED <<settings, displays, current_display_index, is_playing,
                   transition_active, transition_alpha, transition_surface, screen>>
    /\ UNCHANGED <<apiVars, dataVars, moduleVars>>

\* K_1, K_5, K_6 in the menu: flip the flag, rebuild the catalog, redraw the
\* menu (the menu stays open).
ToggleFlag(flag) ==
    /\ pc = "menu"
    /\ settings' = [settings EXCEPT ![flag] = ~settings[flag]]
    /\ displays' = update_display_list(settings')
    /\ UNCHANGED <<current_display_index, display_timer, is_playing, transition_active,
                   transition_alpha, transition_surface, screen, pc, tick>>
    /\ UNCHANGED <<apiVars, dataVars, moduleVars>>

\* K_r in the menu: self.get_weather_data() names a method the class does
\* not have; the AttributeError leaves show_context_menu and the while loop
\* of run(), whose except clause logs it and run() ends.
MenuRefresh ==
    /\ pc = "menu"
    /\ pc' = "stopped"
    /\ tick' = [NoTick EXCEPT !.dt = tick.dt, !.ev = "refresh_key", !.none = tick.none]
    /\ UNCHANGED <<settings, displays, current_display_index, display_timer,
                   is_playing, transition_active, transition_alpha,
                   transition_surface, screen>>
    /\ UNCHANGED <<apiVars, dataVars, moduleVars>>

\* K_ESCAPE (or a click outside) closes the menu: the iteration that opened
\* it runs to its end.
CloseMenu(t, ro, rf, rh) ==
    /\ pc = "menu"
    /\ t >= now
    /\ AfterEvents(Sched, tick.dt, "close", t, ro, rf, rh)
    /\ UNCHANGED <<settings, displays, calls, api_call>>

\* The values of dt fed to the scheduler; MenuDts where the menu is modelled
\* too.
Dts == {5000, 15000, 40000}
MenuDts == {15000}

\* The network answers a request with a payload of the documented layout.
Good == [raised |-> FALSE, status |-> 200, body |-> [id |-> 1, shape |-> "object"]]

\* The startup with every request answered so.
StartGood == Start(Good, Good, Good, Good, Good)

\* The scheduler alone: no menu, and no 5-minute update falls due.
NextSched ==
    \/ StartGood
    \/ \E dt \in Dts, ev \in NavEvents : Tick(dt, ev, now, Raised, Raised, Raised, FALSE)

\* The scheduler and the settings menu.
Next ==
    \/ StartGood
    \/ \E dt \in MenuDts, ev \in Events : Tick(dt, ev, now, Raised, Raised, Raised, FALSE)
    \/ \E dt \in MenuDts : OpenMenu(dt)
    \/ \E flag \in Flags : ToggleFlag(flag)
    \/ MenuRefresh
    \/ CloseMenu(now, Raised, Raised, Raised)

\* The scheduler with the network: the startup's and the 5-minute update's
\* requests fail, or are answered with an object or with an array, and time
\* passes between iterations.
Array == [raised |-> FALSE, status |-> 200, body |-> [id |-> 1, shape |-> "array"]]
DataResponses == {Raised, Good, Array}
Elapses == {0, 301}
DataDts == {15000}
DataEvents == {"none", "space"}

NextData ==
    \/ \E rp, rs, ro, rf, rh \in DataResponses : Start(rp, rs, ro, rf, rh)
    \/ \E dt \in DataDts, ev \in DataEvents, e \in Elapses,
          ro, rf, rh \in DataResponses :
              /\ now + e <= MaxDataClock
              /\ Tick(dt, ev, now + e, ro, rf, rh, FALSE)

\* The scheduler over more than a forecast's lifetime: every iteration comes
\* more than 300 s after the one before, and the requests fail or are answered.
RefreshElapses == {301, 600, 899}
RefreshResponses == {Raised, Good}

NextRefresh ==
    \/ \E rf, rh \in RefreshResponses : Start(Good, Good, Good, rf, rh)
    \/ \E e \in RefreshElapses, ro, rf, rh \in RefreshResponses :
          Tick(15000, "none", now + e, ro, rf, rh, FALSE)

\* The scheduler with draw methods that raise.
DrawDts == {5000, 15000}
DrawEvents == {"none", "space", "right"}

NextDraw ==
    \/ StartGood
    \/ \E dt \in DrawDts, ev \in DrawEvents, draw_raises \in BOOLEAN :
          Tick(dt, ev, now, Raised, Raised, Raised, draw_raises)

\* The scheduler with the 5-minute update's requests in flight: time passes
\* until an update is due and while the requests wait for their answers.
FetchDts == {15000}
FetchEvents == {"none", "right"}
Latencies == {0, 10}
FetchResponses == {Raised, Good}

\* The iterations the main loop can make at the current time without an
\* update falling due.
LoopTicks ==
    \E dt \in FetchDts, ev \in FetchEvents :
        /\ now - last_update <= REFRESH_S
        /\ Tick(dt, ev, now, Raised, Raised, Raised, FALSE)

NextFetch ==
    \/ StartGood
    \/ LoopTicks
    \/ \E dt \in FetchDts, ev \in FetchEvents :
          /\ now + REFRESH_S + 1 <= MaxDataClock
          /\ BeginRefresh(dt, ev, now + REFRESH_S + 1)
    \/ \E lat \in Latencies, ro, rf, rh \in FetchResponses :
          FetchDone(now + lat, ro, rf, rh)

SpecAPI == Init /\ [][NextAPI]_vars
SpecUnits == Init /\ [][NextUnits]_vars
SpecHistory == Init /\ [][NextHistory]_vars
SpecSurface == Init /\ [][NextSurface]_vars
SpecPerf == Init /\ [][NextPerf]_vars
SpecVoice == Init /\ [][NextVoice]_vars
SpecAlert == Init /\ [][NextAlert]_vars
SpecFetch == Init /\ [][NextFetch]_vars
SpecDraw == Init /\ [][NextDraw]_vars
SpecData == Init /\ [][NextData]_vars
SpecRefresh == Init /\ [][NextRefresh]_vars
SpecSched == Init /\ [][NextSched]_vars
Spec == Init /\ [][Next]_vars

(***************************************************************************)
(* Claims about NOAAWeatherAPI, checked under SpecAPI.                     *)
(***************************************************************************)
MaxAges == {1, 300, 1800, 3600}

WasCall == api_call.kind # "none"
CallKey == KeyOf(api_call.kind)

\* The network call failed: exception or timeout, non-200 status, or a body
\* that resp.json() cannot decode.
NetworkFailed(resp) == resp.raised \/ resp.status # 200 \/ resp.body = Undecodable

\* The TTL table of the specification, by data kind.
ClaimedTTL(kind) ==
    CASE kind \in {"point", "stations"} -> 3600
      [] kind = "obs" -> 300
      [] kind \in {"forecast", "hourly"} -> 1800

\* The entry of the call's key was absent or expired when the call was made.
WasStale == api_call.age = -1 \/ api_call.age >= ClaimedTTL(api_call.kind)

\* C1: _is_cache_valid(key, max_age) is true iff the key was stored by
\* _cache_data and now - (time of storing) < max_age; a never-stored key is
\* invalid, a just-stored entry is valid, an entry of age max_age is invalid.
C1_CacheValidIff ==
    \A k \in Keys, m \in MaxAges :
        _is_cache_valid(Api, now, k, m)
            <=> (k \in DOMAIN stored_at /\ now - stored_at[k] < m)

\* An entry of age exactly 300 (invalid for 300, valid for 1800) beside a key
\* that was never stored.
C1_Witness ==
    /\ \E k \in Keys : /\ k \in DOMAIN stored_at
                       /\ now - stored_at[k] = 300
                       /\ ~_is_cache_valid(Api, now, k, 300)
                       /\ _is_cache_valid(Api, now, k, 1800)
    /\ \E k \in Keys : k \notin DOMAIN stored_at /\ ~_is_cache_valid(Api, now, k, 300)

\* C2: an accessor whose entry is absent or expired and whose network call
\* fails returns None and leaves cache and cache_time as they were.
C2_FailedFetchKeepsCache ==
    [][(calls' = calls + 1 /\ (api_call'.age = -1
                               \/ api_call'.age >= ClaimedTTL(api_call'.kind))
        /\ NetworkFailed(api_call'.resp))
       => (api_call'.ret = None /\ cache' = cache /\ cache_time' = cache_time)]_apiVars

\* A failed refetch of an expired entry: None is returned and the expired
\* payload is still in the cache.
C2_Witness ==
    /\ WasCall /\ api_call.age >= ClaimedTTL(api_call.kind)
    /\ NetworkFailed(api_call.resp)
    /\ api_call.ret = None
    /\ CallKey \in DOMAIN cache /\ cache_time[CallKey] < api_call.t

\* C3: a valid entry is returned without a network call; a stale or absent
\* entry and a successful network call (status 200, decodable body) store the
\* payload with the time of the call and return it.
C3_HitOrStoreAndReturn ==
    WasCall =>
        /\ ~WasStale => (~api_call.net /\ api_call.ret = cache[CallKey])
        /\ (WasStale /\ ~NetworkFailed(api_call.resp)) =>
               /\ api_call.net
               /\ api_call.ret = api_call.resp.body
               /\ CallKey \in DOMAIN cache
               /\ cache[CallKey] = api_call.resp.body
               /\ cache_time[CallKey] = api_call.t

\* C4: each kind is served from the cache exactly while its entry is
\* younger than its own TTL (3600 s, 300 s, 1800 s).
C4_OwnTTL ==
    WasCall => (api_call.net <=> WasStale)

\* A forecast of age 301 s served from the cache (an observation of that age
\* is fetched again).
C4_Witness ==
    /\ api_call.kind = "forecast" /\ api_call.age = 301
    /\ ~api_call.net /\ api_call.ret # None

(***************************************************************************)
(* Claims about the scheduler, checked under SpecSched.                    *)
(***************************************************************************)
\* The step is one whole iteration of the main loop, begun and ended in it.
IsTick == pc = "loop" /\ pc' # "menu" /\ tick'.dt > 0
NextIndex == (current_display_index + 1) % Len(displays)

\* C5: playing and without events, the index stays while the accumulated
\* display_timer is below 15000 ms; on the tick where it reaches 15000 ms the
\* index becomes (i + 1) mod len(displays) and display_timer 0, one screen
\* per tick whatever dt.
C5_DwellToAdvance ==
    [][(IsTick /\ tick'.ev = "none" /\ is_playing) =>
        IF display_timer + tick'.dt < 15000
        THEN /\ current_display_index' = current_display_index
             /\ display_timer' = display_timer + tick'.dt
        ELSE /\ current_display_index' = NextIndex
             /\ display_timer' = 0]_vars

\* The dwell reached 15000 ms by accumulating 5000 ms ticks, and the first
\* screen gave way to the second.
C5_Witness ==
    /\ tick.ev = "none" /\ tick.dt = 5000 /\ tick.auto
    /\ current_display_index = 1 /\ display_timer = 0 /\ is_playing

\* C6: while is_playing is False no tick advances the screen automatically;
\* a next command issued while paused advances the index by one screen and
\* resets display_timer to 0.  (A space event ends the pause within the tick.)
C6_PauseFreezes ==
    [][(IsTick /\ ~is_playing /\ tick'.ev # "space") =>
        /\ ~tick'.auto
        /\ tick'.ev = "none" => current_display_index' = current_display_index
        /\ tick'.ev = "right" => /\ current_display_index' = NextIndex
                                 /\ display_timer' = 0]_vars

\* Paused, 60000 ms of ticks on the dwell timer, and no advance.
C6_Witness ==
    /\ ~is_playing /\ display_timer >= 60000
    /\ tick.ev = "none" /\ ~tick.auto

\* C7: every screen change (dwell timer, next, previous) captures the
\* outgoing frame and starts a transition at alpha 255, which the same
\* iteration's transition effect steps down once.
C7_ChangeStartsTransition ==
    [][(IsTick /\ current_display_index' # current_display_index) =>
        /\ transition_active'
        /\ transition_alpha' = 255 - ALPHA_STEP
        /\ transition_surface' = screen]_vars

\* C8: the transition alpha decreases from 255 to exactly 0 and is never
\* negative; a transition that is over leaves alpha at 0.
C8_AlphaReachesZero ==
    /\ transition_alpha >= 0
    /\ ~transition_active => transition_alpha \in {0, 255}

(***************************************************************************)
(* Claims about the screen catalog, checked under Spec.                    *)
(***************************************************************************)
Range(seq) == {seq[i] : i \in 1..Len(seq)}

\* C9: the catalog is a function of the flag set alone: the catalog in use,
\* built at startup or rebuilt after toggles, is the one update_display_list
\* builds for the current flags.
C9_CatalogOfFlags == displays = update_display_list(settings)

\* C10: a rebuild of the catalog that keeps the active screen leaves
\* displays[current_display_index] that same screen.
C10_IndexStableUnderRebuild ==
    [][(pc = "menu" /\ settings' # settings
        /\ current_display_index < Len(displays)
        /\ displays[current_display_index + 1] \in Range(displays')) =>
        /\ current_display_index' < Len(displays')
        /\ displays'[current_display_index' + 1]
               = displays[current_display_index + 1]]_vars

\* C11: after any sequence of ticks, navigation commands and flag toggles
\* 0 <= current_display_index < len(displays), so the lookup
\* displays[current_display_index] of the next tick never fails.
C11_IndexInBounds ==
    /\ 0 <= current_display_index /\ current_display_index < Len(displays)
    /\ tick.ev # "quit" => pc # "stopped"

PrevIndex == (current_display_index - 1) % Len(displays)

\* C12: next and previous wrap modulo the catalog length (next from the last
\* index gives 0, previous from 0 gives the last index), both reset
\* display_timer to 0, and next followed by previous returns to the index.
C12_NavigationWraps ==
    /\ [][(IsTick /\ current_display_index < Len(displays)) =>
            /\ tick'.ev = "right" =>
                 /\ current_display_index' = NextIndex
                 /\ current_display_index = Len(displays) - 1
                        => current_display_index' = 0
                 /\ display_timer' = 0
            /\ tick'.ev = "left" =>
                 /\ current_display_index' = PrevIndex
                 /\ current_display_index = 0
                        => current_display_index' = Len(displays) - 1
                 /\ display_timer' = 0]_vars
    /\ [](current_display_index < Len(displays) =>
            previous_display(cycle_display(Sched)).index = current_display_index)

\* Previous from the first screen arrived at the last one.
C12_Witness ==
    /\ pc = "loop" /\ tick.ev = "left"
    /\ current_display_index = Len(displays) - 1 /\ display_timer = 0

(***************************************************************************)
(* Claims about draw failures, checked under SpecDraw.                     *)
(***************************************************************************)
\* What the event and the dwell timer make of the index, display_timer and
\* is_playing in one iteration.
CycleOutcome ==
    /\ is_playing' = (IF tick'.ev = "space" THEN ~is_playing ELSE is_playing)
    /\ CASE tick'.ev = "right" ->
               current_display_index' = NextIndex /\ display_timer' = 0
         [] tick'.ev = "left" ->
               current_display_index' = PrevIndex /\ display_timer' = 0
         [] OTHER ->
               IF is_playing' /\ display_timer + tick'.dt >= 15000
               THEN current_display_index' = NextIndex /\ display_timer' = 0
               ELSE /\ current_display_index' = current_display_index
                    /\ display_timer' = display_timer + tick'.dt

\* C13: when the draw method of the current screen raises, the loop goes
\* on, the catalog is unchanged and index, display_timer and is_playing are
\* those the event and the dwell timer give; the iteration after it
\* proceeds the same way, auto-advance included.
C13_RenderFailureContained ==
    [][(IsTick /\ (tick'.draw_raised \/ tick.draw_raised)) =>
        /\ pc' = "loop"
        /\ displays' = displays
        /\ CycleOutcome]_vars

\* The draw raised in one iteration, and the next one, 5000 ms later,
\* completed the dwell and advanced the screen.
C13_Witness ==
    /\ pc = "loop" /\ tick.after_raise /\ ~tick.draw_raised
    /\ tick.ev = "none" /\ tick.dt = 5000 /\ tick.auto

(***************************************************************************)
(* Claims about startup and the 5-minute update, checked under SpecData.   *)
(***************************************************************************)
Updates == {"obs", "forecast", "hourly"}
FieldOf(kind) == CASE kind = "obs" -> "current"
                   [] kind = "forecast" -> "forecast"
                   [] kind = "hourly" -> "hourly"

\* C14: update_weather_data is called in an iteration once more than 300 s
\* passed since the previous refresh and never before 300 s passed, on any
\* screen, paused or not; with the station and office known it asks for the
\* observation, the forecast and the hourly forecast; and the iteration's
\* index, display_timer and is_playing are those of the screen cycle alone.
C14_RefreshIndependent ==
    [][IsTick =>
        /\ tick'.refresh => now' - last_update >= 300
        /\ now' - last_update > 300 => tick'.refresh
        /\ (tick'.refresh /\ station # "None" /\ office # "None" /\ pc' = "loop")
               => tick'.asked = Updates
        /\ CycleOutcome]_vars

\* A refresh made while paused, on a screen other than the first, that asked
\* for all three kinds.
C14_Witness ==
    /\ pc = "loop" /\ tick.refresh /\ tick.asked = Updates
    /\ ~is_playing /\ tick.ev = "none" /\ current_display_index > 0
    /\ display_timer > 15000

\* C15: in a refresh, a field whose accessor returned None keeps its value,
\* the other fields take the payloads returned, all three accessors are
\* called, the main loop goes on, and the accessors that returned None in
\* the previous update go to the network in this one.
C15_TransientFailureRecovered ==
    [][(IsTick /\ tick'.refresh /\ station # "None" /\ office # "None") =>
        /\ pc' = "loop"
        /\ tick'.asked = Updates
        /\ \A k \in tick'.none : weather_data'[FieldOf(k)] = weather_data[FieldOf(k)]
        /\ \A k \in Updates \ tick'.none :
               weather_data'[FieldOf(k)] = cache'[KeyOf(k)]
        /\ tick.none \subseteq tick'.net]_vars

\* C16: the tick loop is entered only with the location initialized: the
\* grid office known and an observation station resolved.
C16_FailFast ==
    pc \in {"loop", "menu"} => (station # "None" /\ office # "None")

(***************************************************************************)
(* Claims about requests in flight, checked under SpecFetch.               *)
(***************************************************************************)
\* C19: while a request of the refresh is in flight the tick loop is not
\* stalled: it can take its next iteration (tick, navigation command,
\* screen advance) without waiting for the answer.
C19_FetchDoesNotStall == pc = "fetch" => ENABLED LoopTicks

(***************************************************************************)
(* Claims about the 30-day history, checked under SpecHistory.             *)
(***************************************************************************)
\* The answer carries a series that fetch_history_data can derive whole.
Derivable(resp) ==
    /\ ~resp.raised /\ resp.status = 200 /\ resp.decoded = "object"
    /\ FirstMissing(resp.daily, 1) > Len(resp.daily.time)

Derived(resp) ==
    [temperature |-> [i \in 1..Len(resp.daily.time) |-> TemperatureEntry(resp.daily, i)],
     precipitation |-> PrecipitationLoop(resp.daily)]

\* C17: after a call of fetch_history_data the temperature and the
\* precipitation series are both the ones stored before the call, or both
\* the complete series derived from the answer; a failed refetch never
\* empties, truncates or half-replaces them.
C17_NoTornHistory ==
    [][history_call'.op = "fetch" =>
        \/ history_data' = history_data
        \/ /\ history_call'.net /\ Derivable(history_call'.resp)
           /\ history_data' = Derived(history_call'.resp)]_vars

\* C18: a request from the history display goes to the network exactly
\* when there is no series yet or the series is 3600 s old or older, and
\* then a successful fetch replaces the series by the one derived from the
\* answer.
C18_HistoryOwnTTL ==
    [][history_call'.op = "draw" =>
        /\ history_call'.net
               <=> (history_call'.age = -1 \/ history_call'.age >= 3600)
        /\ (history_call'.net /\ Derivable(history_call'.resp))
               => history_data' = Derived(history_call'.resp)]_vars

(***************************************************************************)
(* Claims about SurfaceCache, checked under SpecSurface.                   *)
(***************************************************************************)
\* C20: with max_size = N >= 1, after any sequence of put, get and clear:
\* at most N entries, cache and access_times with the same keys, exactly N
\* entries once more than N distinct keys were put, and the key just put is
\* in the cache with the surface put.
C20_SurfaceCacheBounded ==
    max_size >= 1 =>
        /\ Cardinality(DOMAIN surfaces) <= max_size
        /\ DOMAIN surfaces = DictKeys(access_times)
        /\ Cardinality(surface_call.puts) > max_size
               => Cardinality(DOMAIN surfaces) = max_size
        /\ surface_call.op = "put" =>
               /\ surface_call.key \in DOMAIN surfaces
               /\ SurfaceCache_get(SurfaceCache, now, surface_call.key).ret
                      = surface_call.surface

(***************************************************************************)
(* Claims about the order of an iteration and the transition, checked      *)
(* under SpecSched.                                                        *)
(***************************************************************************)
\* C23: display_timer keeps accumulating dt while is_playing is False, and
\* a resume command in an iteration where display_timer has reached
\* 15000 ms is followed in that iteration by the automatic advance: the
\* index moves on and the dwell starts at 0.
C23_PauseKeepsTimerRunning ==
    [][(IsTick /\ ~is_playing) =>
        /\ tick'.ev = "none" => display_timer' = display_timer + tick'.dt
        /\ (tick'.ev = "space" /\ display_timer + tick'.dt >= 15000)
               => /\ is_playing' /\ tick'.auto
                  /\ current_display_index' = NextIndex
                  /\ display_timer' = 0
        /\ (tick'.ev = "space" /\ display_timer + tick'.dt < 15000)
               => /\ is_playing' /\ ~tick'.auto
                  /\ current_display_index' = current_display_index
                  /\ display_timer' = display_timer + tick'.dt]_vars

\* Resumed after a pause of 45000 ms: the screen advanced in the iteration
\* of the resume command.
C23_Witness ==
    /\ pc = "loop" /\ tick.ev = "space" /\ tick.auto /\ is_playing
    /\ display_timer = 0 /\ current_display_index = 1

\* C24: on the iteration at which the dwell reaches 15000 ms while playing,
\* a next command yields one advance, made by the command and not repeated
\* by the auto-cycle, and a pause command suppresses the automatic advance.
C24_TimerEventsThenAuto ==
    [][(IsTick /\ is_playing /\ display_timer + tick'.dt >= 15000) =>
        /\ tick'.ev = "right" => /\ current_display_index' = NextIndex
                                 /\ ~tick'.auto
                                 /\ display_timer' = 0
        /\ tick'.ev = "space" => /\ current_display_index' = current_display_index
                                 /\ ~tick'.auto /\ ~is_playing'
                                 /\ display_timer' = display_timer + tick'.dt]_vars

\* A pause command on the iteration at which the dwell reached 15000 ms:
\* still on the first screen, paused, with the dwell kept.
C24_Witness ==
    /\ pc = "loop" /\ tick.ev = "space" /\ ~is_playing /\ ~tick.auto
    /\ current_display_index = 0 /\ display_timer = 15000 /\ tick.dt = 5000

\* C25: a transition that is not active holds no captured frame, and a
\* screen change made while a transition is active restarts the fade at
\* alpha 255 (stepped down once by the iteration's transition effect) with
\* the frame then on the screen.
C25_TransitionState ==
    /\ [](~transition_active => transition_surface = "None")
    /\ [][(IsTick /\ transition_active
           /\ current_display_index' # current_display_index) =>
            /\ transition_active'
            /\ transition_alpha' = 255 - ALPHA_STEP
            /\ transition_surface' = screen]_vars

(***************************************************************************)
(* Claims about the unresolved station and the refresh against the TTLs.   *)
(***************************************************************************)
\* C27: with the station unresolved after startup (office known), every
\* iteration, the refreshing ones included, makes no accessor call and no
\* network request, leaves weather_data and the cache unchanged, and
\* leaves the station unresolved.
C27_UnresolvedStationNeverFetches ==
    [][(IsTick /\ station = "None" /\ office # "None") =>
        /\ tick'.asked = {} /\ tick'.net = {}
        /\ weather_data' = weather_data
        /\ cache' = cache /\ cache_time' = cache_time
        /\ station' = "None"
        /\ pc' = "loop"]_vars

\* Two refreshes were due and made with the station unresolved: nothing was
\* asked for and there is still no weather data.
C27_Witness ==
    /\ pc = "loop" /\ station = "None" /\ office # "None"
    /\ tick.refresh /\ tick.asked = {} /\ now > 600
    /\ weather_data = NoData

\* The age, at the iteration's time, of the entry last stored for the kind;
\* -1 with no entry stored.
AgeAtTick(kind) ==
    IF KeyOf(kind) \in DOMAIN stored_at THEN now' - stored_at[KeyOf(kind)] ELSE -1

\* C28: with the station resolved, every periodic refresh asks for the
\* current observation and sends a network request for it (its entry, TTL
\* 300 s, is older than 300 s), while a forecast or hourly forecast asked
\* for less than 1800 s after its last successful fetch is served from the
\* cache, and one asked for at 1800 s or later is fetched again.
C28_RefreshAgainstTTLs ==
    [][(IsTick /\ tick'.refresh /\ station # "None" /\ office # "None") =>
        /\ "obs" \in tick'.asked /\ "obs" \in tick'.net
        /\ \A k \in {"forecast", "hourly"} :
              k \in tick'.asked =>
                  (k \notin tick'.net <=> (AgeAtTick(k) >= 0 /\ AgeAtTick(k) < TTL_FORECAST))]_vars

\* A refresh that fetched the observation and served both forecasts, stored
\* 1505 s before, from the cache.
C28_Witness ==
    /\ pc = "loop" /\ tick.refresh /\ now = 1505
    /\ tick.asked = Updates /\ tick.net = {"obs"}
    /\ stored_at[KeyOf("forecast")] = 0 /\ stored_at[KeyOf("hourly")] = 0

(***************************************************************************)
(* Claim about the menu's refresh command, checked under Spec.             *)
(***************************************************************************)
\* C22: the menu's [R] command runs the update the periodic refresh runs,
\* closes the menu and leaves the main loop running, with
\* current_display_index, is_playing and displays unchanged.
C22_MenuRefreshKeepsLoop ==
    [][(pc = "menu" /\ tick'.ev = "refresh_key") =>
        /\ pc' = "loop"
        /\ tick'.refresh
        /\ current_display_index' = current_display_index
        /\ is_playing' = is_playing
        /\ displays' = displays]_vars

(***************************************************************************)
(* Claim about the units of a forecast request, checked under SpecUnits.   *)
(***************************************************************************)
\* C26: the key of get_forecast and get_hourly_forecast does not hold the
\* units: a call asking for units other than those of the key's last
\* successful fetch, made less than 1800 s after it, makes no network
\* request and returns the payload fetched with the earlier units.
C26_UnitsNotInKey ==
    (/\ api_call.kind \in UnitsKinds
     /\ api_call.age >= 0 /\ api_call.age < TTL_FORECAST
     /\ api_call.prior.units # api_call.units)
        => /\ ~api_call.net
           /\ api_call.ret = api_call.prior.body
           /\ stored_with[CallKey] = api_call.prior

\* A forecast fetched with units us at time 0 and asked for with units si
\* 1799 s later: the us payload came back from the cache.
C26_Witness ==
    /\ api_call.kind = "forecast" /\ api_call.units = "si" /\ api_call.age = 1799
    /\ api_call.prior = [units |-> "us", body |-> [id |-> 2, shape |-> "object"]]
    /\ api_call.ret = [id |-> 2, shape |-> "object"] /\ ~api_call.net

(***************************************************************************)
(* Claims about the performance, voice and alert modules, checked under    *)
(* SpecPerf, SpecVoice and SpecAlert.                                      *)
(***************************************************************************)
\* C21: with update() and should_skip_frame() called once each per frame and
\* frame_skip set on both of two consecutive frames, should_skip_frame()
\* gives different answers on the two frames (True and False alternate, never
\* True twice in a row).
C21_SkipsEveryOtherFrame ==
    (/\ perf_call.op = "should_skip_frame" /\ perf_call.skips = 2
     /\ perf_call.gap = 1 /\ perf_call.low /\ perf_call.prev_low)
        => perf_call.ret # perf_call.prev_ret

\* C29: is_speaking does not become False and restore_callback is not
\* invoked while a speech worker is between its duck and the end of its
\* speech.
C29_DuckingBracketsSpeech ==
    [][((is_speaking /\ ~is_speaking')
        \/ \E w \in Workers : workers[w] = "cleared" /\ workers'[w] = "done")
       => \A v \in Workers : workers'[v] # "ducked"]_vars

\* C30: on a frame of draw_severe_weather_alert that follows another one,
\* both with alerts, scroll_offset grows by scroll_speed * dt.
C30_ScrollAccumulates ==
    [][(/\ alert_call'.seq # alert_call.seq
        /\ alert_call.op = "draw_severe_weather_alert" /\ alert_call.alerts # <<>>
        /\ alert_call'.op = "draw_severe_weather_alert" /\ alert_call'.alerts # <<>>
        /\ alert_call'.alerts = alert_call.alerts)
       => animator'.scroll_offset = animator.scroll_offset + scroll_speed * alert_call'.dt]_vars

====
